---- MODULE Spec2Model ----
(***************************************************************************)
(* SkinCancerDataset (prerequisite/dataset_sc.py): an indexable dataset    *)
(* over two caller-supplied Python sequences and a caller-supplied         *)
(* transform.  The sequences are modelled as Python lists (0-based         *)
(* subscripts, negative subscripts counted from the end, IndexError        *)
(* outside -n..n-1); a Python list l is the TLA+ sequence whose element    *)
(* l[k] is at position k+1.                                                *)
(***************************************************************************)
EXTENDS Integers, Sequences, FiniteSets

\* ---------------------------------------------------------------- bounds
MaxLen == 3
MaxFetches == 2
MaxLenConc == 2
NumWorkers == 2

SampleVals == {1, 2}
Transforms == {"identity", "tag", "counter", "failing"}
\* transforms without internal state: safe to call from several workers
StatelessTransforms == {"identity", "tag", "failing"}
Workers == 1..NumWorkers

SeqsUpTo(S, n) == UNION {[1..k -> S] : k \in 0..n}
\* label sequences of every length up to n, the labels distinct by position
LabelSeqs(n) == {[k \in 1..m |-> 6 + k] : m \in 0..n}
Indices == (0 - (MaxLen + 1))..(MaxLen + 1)

VARIABLES me, calls, lens, hist, pc, widx, wsample, wval, wres

vars == <<me, calls, lens, hist, pc, widx, wsample, wval, wres>>

\* ------------------------------------------------------ values and errors
NoError == [type |-> "None", arg |-> 0]
IndexError(index) == [type |-> "IndexError", arg |-> index]
ValueError(x) == [type |-> "ValueError", arg |-> x]

\* the tuple a fetch returns
Return(s, l) == [status |-> "return", sample |-> s, label |-> l, err |-> NoError]

\* a plausible bug: the error is caught and re-raised as another error
RaiseWrapped(e) == [status |-> "raise", sample |-> 0, label |-> 0,
                    err |-> [type |-> "RuntimeError", arg |-> e.arg]]

\* a plausible bug: the error is caught and a default pair is returned
RaiseSwallowed(e) == [status |-> "return", sample |-> 0, label |-> 0, err |-> NoError]

\* no try/except in __getitem__: an exception leaves the method as it is
Raise(e) == [status |-> "raise", sample |-> 0, label |-> 0, err |-> e]

NoResult == Raise(NoError)

\* ------------------------------------------------------ list subscripting
\* a plausible bug: the subscript wraps around modulo the length
ListGetItemModulo(seq, index) ==
    IF Len(seq) = 0
    THEN [raised |-> TRUE, val |-> 0, err |-> IndexError(index)]
    ELSE [raised |-> FALSE, val |-> seq[(index % Len(seq)) + 1], err |-> NoError]

\* a plausible bug: negative subscripts are rejected
ListGetItemNoNegative(seq, index) ==
    IF index < 0 \/ index >= Len(seq)
    THEN [raised |-> TRUE, val |-> 0, err |-> IndexError(index)]
    ELSE [raised |-> FALSE, val |-> seq[index + 1], err |-> NoError]

\* a plausible bug: the subscript is off by one
ListGetItemOffByOne(seq, index) ==
    IF index + 1 < 0 \/ index + 1 >= Len(seq)
    THEN [raised |-> TRUE, val |-> 0, err |-> IndexError(index)]
    ELSE [raised |-> FALSE, val |-> seq[index + 2], err |-> NoError]

\* seq[index] of a Python list
ListGetItem(seq, index) ==
    LET n == Len(seq)
        k == IF index < 0 THEN index + n ELSE index
    IN  IF k < 0 \/ k >= n
        THEN [raised |-> TRUE, val |-> 0, err |-> IndexError(index)]
        ELSE [raised |-> FALSE, val |-> seq[k + 1], err |-> NoError]

\* ------------------------------------------------------------- transforms
Tag(x) == 100 + x
Malformed(x) == x = 2

\* one invocation of the caller's transform on x; calls is the number of
\* invocations made before this one
TransformCall(t, x, n) ==
    CASE t = "identity" -> [raised |-> FALSE, val |-> x, err |-> NoError, calls |-> n + 1]
      [] t = "tag"      -> [raised |-> FALSE, val |-> Tag(x), err |-> NoError, calls |-> n + 1]
      [] t = "counter"  -> [raised |-> FALSE, val |-> n + 1, err |-> NoError, calls |-> n + 1]
      [] t = "failing"  -> IF Malformed(x)
                           THEN [raised |-> TRUE, val |-> 0, err |-> ValueError(x), calls |-> n + 1]
                           ELSE [raised |-> FALSE, val |-> x, err |-> NoError, calls |-> n + 1]

\* ------------------------------------------------------------ the dataset
SkinCancerDataset(dataimage, labels, transforms) ==
    [dataimage |-> dataimage, labels |-> labels, transforms |-> transforms]

\* a plausible bug: the count is taken from the labels
Dataset_len_labels(self) == Len(self.labels)

\* a plausible bug: the count is the common length
Dataset_len_min(self) ==
    IF Len(self.labels) < Len(self.dataimage) THEN Len(self.labels) ELSE Len(self.dataimage)

Dataset_len(self) == Len(self.dataimage)

\* a plausible bug: the transform is invoked a second time on its own output
Dataset_getitem_twice(self, index, n) ==
    LET s == ListGetItem(self.dataimage, index) IN
    IF s.raised
    THEN [me |-> self, result |-> Raise(s.err), calls |-> n, log |-> <<"dataimage">>]
    ELSE LET t1 == TransformCall(self.transforms, s.val, n)
             t == IF t1.raised THEN t1 ELSE TransformCall(self.transforms, s.val, t1.calls) IN
         IF t.raised
         THEN [me |-> self, result |-> Raise(t.err), calls |-> t.calls,
               log |-> <<"dataimage", "transforms">>]
         ELSE LET l == ListGetItem(self.labels, index) IN
              IF l.raised
              THEN [me |-> self, result |-> Raise(l.err), calls |-> t.calls,
                    log |-> <<"dataimage", "transforms", "labels">>]
              ELSE [me |-> self, result |-> Return(t.val, l.val), calls |-> t.calls,
                    log |-> <<"dataimage", "transforms", "labels">>]

\* a plausible bug: the sample is popped from the list instead of read
Dataset_getitem_pop(self, index, n) ==
    LET s == ListGetItem(self.dataimage, index)
        k == IF index < 0 THEN index + Len(self.dataimage) ELSE index
        rest == [self EXCEPT !.dataimage =
                    SubSeq(self.dataimage, 1, k) \o
                    SubSeq(self.dataimage, k + 2, Len(self.dataimage))] IN
    IF s.raised
    THEN [me |-> self, result |-> Raise(s.err), calls |-> n, log |-> <<"dataimage">>]
    ELSE LET t == TransformCall(self.transforms, s.val, n) IN
         IF t.raised
         THEN [me |-> rest, result |-> Raise(t.err), calls |-> t.calls,
               log |-> <<"dataimage", "transforms">>]
         ELSE LET l == ListGetItem(self.labels, index) IN
              IF l.raised
              THEN [me |-> rest, result |-> Raise(l.err), calls |-> t.calls,
                    log |-> <<"dataimage", "transforms", "labels">>]
              ELSE [me |-> rest, result |-> Return(t.val, l.val), calls |-> t.calls,
                    log |-> <<"dataimage", "transforms", "labels">>]

\* a plausible bug: the label is read before the sample is transformed
Dataset_getitem_label_first(self, index, n) ==
    LET l == ListGetItem(self.labels, index) IN
    IF l.raised
    THEN [me |-> self, result |-> Raise(l.err), calls |-> n, log |-> <<"labels">>]
    ELSE LET s == ListGetItem(self.dataimage, index) IN
         IF s.raised
         THEN [me |-> self, result |-> Raise(s.err), calls |-> n,
               log |-> <<"labels", "dataimage">>]
         ELSE LET t == TransformCall(self.transforms, s.val, n) IN
              IF t.raised
              THEN [me |-> self, result |-> Raise(t.err), calls |-> t.calls,
                    log |-> <<"labels", "dataimage", "transforms">>]
              ELSE [me |-> self, result |-> Return(t.val, l.val), calls |-> t.calls,
                    log |-> <<"labels", "dataimage", "transforms">>]

\* return me.transforms(me.dataimage[index]), me.labels[index]
\* evaluated left to right: me.dataimage[index], the call, me.labels[index];
\* log is the list of the collaborators touched, in order
Dataset_getitem(self, index, n) ==
    LET s == ListGetItem(self.dataimage, index) IN
    IF s.raised
    THEN [me |-> self, result |-> Raise(s.err), calls |-> n, log |-> <<"dataimage">>]
    ELSE LET t == TransformCall(self.transforms, s.val, n) IN
         IF t.raised
         THEN [me |-> self, result |-> Raise(t.err), calls |-> t.calls,
               log |-> <<"dataimage", "transforms">>]
         ELSE LET l == ListGetItem(self.labels, index) IN
              IF l.raised
              THEN [me |-> self, result |-> Raise(l.err), calls |-> t.calls,
                    log |-> <<"dataimage", "transforms", "labels">>]
              ELSE [me |-> self, result |-> Return(t.val, l.val), calls |-> t.calls,
                    log |-> <<"dataimage", "transforms", "labels">>]

\* ---------------------------------------------- one caller: Spec
IdleWorkers ==
    /\ pc = [w \in Workers |-> "idle"]
    /\ widx = [w \in Workers |-> 0]
    /\ wsample = [w \in Workers |-> 0]
    /\ wval = [w \in Workers |-> 0]
    /\ wres = [w \in Workers |-> NoResult]

Init ==
    /\ me \in {SkinCancerDataset(d, l, t) :
                 d \in SeqsUpTo(SampleVals, MaxLen),
                 l \in LabelSeqs(MaxLen),
                 t \in Transforms}
    /\ calls = 0
    /\ lens = {}
    /\ hist = <<>>
    /\ IdleWorkers

\* len(dataset)
CallLen ==
    /\ lens' = lens \cup {Dataset_len(me)}
    /\ UNCHANGED <<me, calls, hist, pc, widx, wsample, wval, wres>>

\* dataset[index]
CallGetItem(index) ==
    /\ Len(hist) < MaxFetches
    /\ LET r == Dataset_getitem(me, index, calls) IN
         /\ me' = r.me
         /\ calls' = r.calls
         /\ hist' = Append(hist, [index |-> index, result |-> r.result, log |-> r.log,
                                   before |-> calls, after |-> r.calls])
    /\ UNCHANGED <<lens, pc, widx, wsample, wval, wres>>

Next ==
    \/ CallLen
    \/ \E index \in Indices : CallGetItem(index)

Spec == Init /\ [][Next]_vars

\* -------------------------------- several workers, one fetch each: SpecConc
InitConc ==
    /\ me \in {SkinCancerDataset(d, l, t) :
                 d \in SeqsUpTo(SampleVals, MaxLenConc),
                 l \in LabelSeqs(MaxLenConc),
                 t \in StatelessTransforms}
    /\ calls = 0
    /\ lens = {}
    /\ hist = <<>>
    /\ IdleWorkers

\* a plausible bug: the operand is kept in a slot shared by the workers
OperandShared(w) == wsample[CHOOSE v \in Workers : pc[v] = "transforms"]

\* the operand of the transform call is the value this worker's frame read
Operand(w) == wsample[w]

\* a loader worker is handed an index of range(len(dataset))
Fetch(w, index) ==
    /\ pc[w] = "idle"
    /\ index \in 0..(Dataset_len(me) - 1)
    /\ pc' = [pc EXCEPT ![w] = "dataimage"]
    /\ widx' = [widx EXCEPT ![w] = index]
    /\ UNCHANGED <<me, calls, lens, hist, wsample, wval, wres>>

\* me.dataimage[index]
ReadSample(w) ==
    /\ pc[w] = "dataimage"
    /\ LET s == ListGetItem(me.dataimage, widx[w]) IN
         IF s.raised
         THEN /\ pc' = [pc EXCEPT ![w] = "done"]
              /\ wres' = [wres EXCEPT ![w] = Raise(s.err)]
              /\ UNCHANGED wsample
         ELSE /\ pc' = [pc EXCEPT ![w] = "transforms"]
              /\ wsample' = [wsample EXCEPT ![w] = s.val]
              /\ UNCHANGED wres
    /\ UNCHANGED <<me, calls, lens, hist, widx, wval>>

\* me.transforms(...)
CallTransform(w) ==
    /\ pc[w] = "transforms"
    /\ LET t == TransformCall(me.transforms, Operand(w), calls) IN
         /\ calls' = t.calls
         /\ IF t.raised
            THEN /\ pc' = [pc EXCEPT ![w] = "done"]
                 /\ wres' = [wres EXCEPT ![w] = Raise(t.err)]
                 /\ UNCHANGED wval
            ELSE /\ pc' = [pc EXCEPT ![w] = "labels"]
                 /\ wval' = [wval EXCEPT ![w] = t.val]
                 /\ UNCHANGED wres
    /\ UNCHANGED <<me, lens, hist, widx, wsample>>

\* me.labels[index], then the tuple is returned
ReadLabel(w) ==
    /\ pc[w] = "labels"
    /\ LET l == ListGetItem(me.labels, widx[w]) IN
         wres' = [wres EXCEPT ![w] = IF l.raised THEN Raise(l.err)
                                                 ELSE Return(wval[w], l.val)]
    /\ pc' = [pc EXCEPT ![w] = "done"]
    /\ UNCHANGED <<me, calls, lens, hist, widx, wsample, wval>>

NextConc ==
    \/ \E w \in Workers : \E index \in 0..MaxLenConc : Fetch(w, index)
    \/ \E w \in Workers : ReadSample(w)
    \/ \E w \in Workers : CallTransform(w)
    \/ \E w \in Workers : ReadLabel(w)

SpecConc == InitConc /\ [][NextConc]_vars

\* ------------------------------------------------------------ properties
N == Len(me.dataimage)
M == Len(me.labels)
Fetched == {hist[k] : k \in 1..Len(hist)}

\* the value the bound transform gives for raw sample x in fetch h
ExpectedVal(h, x) ==
    CASE me.transforms = "identity" -> x
      [] me.transforms = "tag"      -> 100 + x
      [] me.transforms = "counter"  -> h.before + 1
      [] me.transforms = "failing"  -> x

\* the bound transform raises on raw sample x
TransformRaises(x) == me.transforms = "failing" /\ x = 2

Returned(h, s, l) ==
    /\ h.result.status = "return"
    /\ h.result.sample = s
    /\ h.result.label = l

RaisedIndexError(h) ==
    /\ h.result.status = "raise"
    /\ h.result.err = [type |-> "IndexError", arg |-> h.index]

\* C1: with samples and labels of the same length N, a fetch at an index i
\* with 0 <= i < N returns (transform(samples[i]), labels[i]); with the
\* identity transform that is (samples[i], labels[i]).
C1_FetchCorrect ==
    \A h \in Fetched :
        (M = N /\ 0 <= h.index /\ h.index < N /\ ~TransformRaises(me.dataimage[h.index + 1]))
        => /\ Returned(h, ExpectedVal(h, me.dataimage[h.index + 1]), me.labels[h.index + 1])
           /\ me.transforms = "identity"
              => (h.result.sample = me.dataimage[h.index + 1])

C1_Witness ==
    /\ M = N
    /\ me.transforms = "tag"
    /\ \E h \in Fetched :
         /\ h.index = 1
         /\ N > 1
         /\ me.dataimage[1] # me.dataimage[2]
         /\ me.labels[1] # me.labels[2]
         /\ h.result.status = "return"

\* C2: the count operation returns the length of the samples, whatever the
\* length of the labels.
C2_CountIsSampleLength == lens \subseteq {N}

C2_Witness == lens # {} /\ M > N

\* C3: the transform is invoked exactly once per fetch with a valid index:
\* after k such fetches it has been invoked k times, and with the counting
\* transform two fetches at the same index return strictly increasing values.
C3_OncePerFetch ==
    /\ (\A h \in Fetched : 0 <= h.index /\ h.index < N)
       => /\ calls = Len(hist)
          /\ \A h \in Fetched : h.after = h.before + 1
    /\ \A j \in 1..Len(hist) : \A k \in 1..Len(hist) :
         (/\ me.transforms = "counter"
          /\ j < k
          /\ hist[j].index = hist[k].index
          /\ 0 <= hist[j].index
          /\ hist[j].index < N
          /\ hist[j].index < M)
         => /\ hist[j].result.status = "return"
            /\ hist[k].result.status = "return"
            /\ hist[j].result.sample < hist[k].result.sample

C3_Witness ==
    /\ me.transforms = "counter"
    /\ Len(hist) = 2
    /\ hist[1].index = hist[2].index
    /\ hist[1].result.status = "return"
    /\ hist[2].result.status = "return"
    /\ calls = 2

\* C4: a fetch at an index >= N fails with an out-of-range failure and
\* returns no value.
C4_OutOfRangeFails ==
    \A h \in Fetched : h.index >= N => RaisedIndexError(h)

C4_Witness ==
    /\ N > 0
    /\ M > 0
    /\ \E h \in Fetched : h.index >= N /\ h.result.status = "raise"

\* C5 as stated: a fetch with a negative index never returns the element
\* counted from the end, (transform(samples[N+index]), labels[N+index]).
C5_NoWraparound ==
    \A h \in Fetched :
        (h.index < 0 /\ 0 <= N + h.index /\ N + h.index < M)
        => ~Returned(h, ExpectedVal(h, me.dataimage[N + h.index + 1]),
                     me.labels[N + h.index + 1])

\* C5 amended: the index is handed to the sequences unchecked, so with list
\* sequences a fetch with -N <= index < 0 and -M <= index returns
\* (transform(samples[N+index]), labels[M+index]) unless the transform
\* raises, and a fetch with index < -N fails with an out-of-range failure
\* before the transform is invoked.
C5_NegativeIndexFromEnd ==
    \A h \in Fetched :
        /\ (h.index < 0 /\ 0 <= N + h.index /\ 0 <= M + h.index
            /\ ~TransformRaises(me.dataimage[N + h.index + 1]))
           => Returned(h, ExpectedVal(h, me.dataimage[N + h.index + 1]),
                       me.labels[M + h.index + 1])
        /\ (h.index < 0 /\ N + h.index < 0)
           => (RaisedIndexError(h) /\ h.after = h.before)

C5_Witness ==
    /\ N > 0
    /\ M > N
    /\ me.labels[M] # me.labels[N]
    /\ \E h \in Fetched : h.index = 0 - 1 /\ h.result.status = "return"
    /\ \E h \in Fetched : h.index < 0 - N /\ h.result.status = "raise"

\* C6: with labels shorter than samples the instance exists, the count is
\* still the length of the samples, a fetch at i with M <= i < N fails with
\* an out-of-range error raised by the label lookup (the sample was read and
\* transformed), and a fetch at 0 <= i < M meets no out-of-range error.
C6_ShortLabels ==
    M < N
    => /\ lens \subseteq {N}
       /\ \A h \in Fetched :
            /\ (M <= h.index /\ h.index < N
                /\ ~TransformRaises(me.dataimage[h.index + 1]))
               => /\ RaisedIndexError(h)
                  /\ h.log = <<"dataimage", "transforms", "labels">>
            /\ (0 <= h.index /\ h.index < M)
               => /\ h.result.err.type # "IndexError"
                  /\ ~TransformRaises(me.dataimage[h.index + 1])
                     => Returned(h, ExpectedVal(h, me.dataimage[h.index + 1]),
                                 me.labels[h.index + 1])

C6_Witness ==
    /\ N = 3
    /\ M = 2
    /\ lens = {3}
    /\ \E h \in Fetched : h.index = 2 /\ h.result.status = "raise"
    /\ \E h \in Fetched : h.index = 1 /\ h.result.status = "return"

\* C7: an error of the transform leaves the fetch as that same error, after
\* one invocation and without a returned pair; an error of a sequence
\* lookup leaves the fetch as that same error.
C7_ErrorsPropagate ==
    \A h \in Fetched :
        LET k == IF h.index < 0 THEN N + h.index ELSE h.index
            j == IF h.index < 0 THEN M + h.index ELSE h.index
            sampleOk == 0 <= k /\ k < N
            labelOk == 0 <= j /\ j < M
        IN  /\ (sampleOk /\ TransformRaises(me.dataimage[k + 1]))
               => /\ h.result.status = "raise"
                  /\ h.result.err = [type |-> "ValueError", arg |-> me.dataimage[k + 1]]
                  /\ h.after = h.before + 1
                  /\ h.log = <<"dataimage", "transforms">>
            /\ ~sampleOk => RaisedIndexError(h)
            /\ (sampleOk /\ ~TransformRaises(me.dataimage[k + 1]) /\ ~labelOk)
               => RaisedIndexError(h)

C7_Witness ==
    /\ \E h \in Fetched : h.result.err.type = "ValueError" /\ h.after = h.before + 1
    /\ \E h \in Fetched : h.result.err.type = "IndexError"

\* C8: no count and no fetch, successful or failing, changes the bound
\* samples, labels or transform, and the count is one value throughout.
C8_NeverMutated == [][me' = me /\ Cardinality(lens') <= 1]_vars

C8_Witness ==
    /\ lens # {}
    /\ N > 1
    /\ \E h \in Fetched : h.result.status = "return"
    /\ \E h \in Fetched : h.result.status = "raise"

\* C9: under every interleaving of the workers' steps, with a stateless
\* transform, a worker that has finished holds the result of its own index:
\* (transform(samples[i]), labels[i]), or the failure a lone fetch at i
\* gives, and the bound data is unchanged.
C9_ConcurrentFetches ==
    [][/\ me' = me
       /\ \A w \in Workers :
            pc'[w] = "done"
            => LET i == widx'[w]
                   x == me.dataimage[i + 1]
                   r == wres'[w]
               IN  IF TransformRaises(x)
                   THEN r.status = "raise" /\ r.err = [type |-> "ValueError", arg |-> x]
                   ELSE IF i >= M
                   THEN r.status = "raise" /\ r.err = [type |-> "IndexError", arg |-> i]
                   ELSE /\ r.status = "return"
                        /\ r.sample = (IF me.transforms = "tag" THEN 100 + x ELSE x)
                        /\ r.label = me.labels[i + 1]]_vars

C9_Witness ==
    /\ \A w \in Workers : pc[w] = "done" /\ wres[w].status = "return"
    /\ widx[1] # widx[2]
    /\ wres[1].sample # wres[2].sample
    /\ wres[1].label # wres[2].label
    /\ me.transforms = "tag"

\* C10: a fetch reads the sample, then invokes the transform, then reads the
\* label: a fetch failing on the sample lookup invokes the transform zero
\* times and does not read the labels; a fetch failing on the label lookup
\* has invoked the transform exactly once.
C10_StepOrder ==
    \A h \in Fetched :
        LET k == IF h.index < 0 THEN N + h.index ELSE h.index
            j == IF h.index < 0 THEN M + h.index ELSE h.index
            sampleOk == 0 <= k /\ k < N
            labelOk == 0 <= j /\ j < M
        IN  /\ h.log \in {<<"dataimage">>, <<"dataimage", "transforms">>,
                          <<"dataimage", "transforms", "labels">>}
            /\ ~sampleOk
               => /\ h.result.status = "raise"
                  /\ h.log = <<"dataimage">>
                  /\ h.after = h.before
            /\ (sampleOk /\ ~labelOk /\ ~TransformRaises(me.dataimage[k + 1]))
               => /\ h.result.status = "raise"
                  /\ h.log = <<"dataimage", "transforms", "labels">>
                  /\ h.after = h.before + 1

C10_Witness ==
    /\ me.transforms = "counter"
    /\ Len(hist) = 2
    /\ hist[1].index >= M
    /\ hist[1].index < N
    /\ hist[1].result.status = "raise"
    /\ hist[2].index < M
    /\ hist[2].index >= 0
    /\ hist[2].result.sample = 2

====
